---------------------------- MODULE Spec2Model ----------------------------
(***************************************************************************)
(* Financial life projection (src/app.py) and the Norwegian tax calculator *)
(* (src/taxes.py).                                                         *)
(*                                                                         *)
(* Numbers.  The program computes in binary floating point.  Here          *)
(*   - money is an integer number of oere (1/100 NOK), NOK(x) = 100 * x;   *)
(*   - a decimal literal of the source (0.22, 0.00525, a slider value with *)
(*     step 0.1) is the exact rational <<numerator, denominator>>;         *)
(*   - a computed ratio (monthly rate, (1+r)^n, effective tax rate,        *)
(*     inflation factor) is a fixed-point number with FracOne units per 1; *)
(*   - every multiplication and division rounds its exact result to the    *)
(*     nearest unit, as a floating-point operation rounds to the nearest   *)
(*     representable value.  Addition and subtraction are exact.           *)
(* The precision is coarser than a double's, the shape of the computation  *)
(* (which operations round, and in which order) is the program's.          *)
(***************************************************************************)
EXTENDS Integers, Sequences, FiniteSets, TLC

\* Units of a fixed-point ratio per 1 (the precision of computed ratios).
FracOne == 10000000

NOK(x) == 100 * x

Max(a, b) == IF a >= b THEN a ELSE b
Min(a, b) == IF a <= b THEN a ELSE b
Abs(a) == IF a >= 0 THEN a ELSE -a

(***************************************************************************)
(* Long multiplication and division in 32-bit integers (TLC's width):      *)
(* MulQR(a, b, d, B) = <<q, r>> with a * b = q * d + r and 0 <= r < d, for *)
(* 0 <= a < d, b >= 0 and a radix B >= 2 with d * B <= 2^30.  b is taken   *)
(* digit by digit in radix B, so no intermediate exceeds 2^31.             *)
(***************************************************************************)
QRStep(h, a, digit, d, B) ==
    <<h[1] * B + ((h[2] * B + a * digit) \div d), (h[2] * B + a * digit) % d>>
RECURSIVE MulQR(_, _, _, _)
MulQR(a, b, d, B) ==
    IF b = 0 THEN <<0, 0>>
    ELSE QRStep(MulQR(a, b \div B, d, B), a, b % B, d, B)

Radix(d) == 1073741824 \div d

\* The quotient rounded to the nearest integer (halves away from zero).
RoundQR(h, d) == IF 2 * h[2] >= d THEN h[1] + 1 ELSE h[1]
\* round(a * b / d) for a, b >= 0 and 0 < d <= 2^29.
MulDivPos(a, b, d) ==
    (a \div d) * b + RoundQR(MulQR(a % d, b, d, Radix(d)), d)

MulDivSigned(a, b, d) ==
    IF (a >= 0) = (b >= 0) THEN MulDivPos(Max(Abs(a), Abs(b)), Min(Abs(a), Abs(b)), d)
    ELSE -MulDivPos(Max(Abs(a), Abs(b)), Min(Abs(a), Abs(b)), d)

\* round(a * b / d) for integers a, b and d # 0 (the operands are evaluated
\* once, before the long multiplication).
MulDiv(a, b, d) ==
    CHOOSE r \in {IF z > 0 THEN MulDivSigned(x, y, z) ELSE MulDivSigned(-x, y, -z) :
                      x \in {a}, y \in {b}, z \in {d}} : TRUE

\* x * rat, x / rat for an exact rational rat = <<numerator, denominator>>.
MulRat(x, rat) == MulDiv(x, rat[1], rat[2])
\* A rational as a fixed-point ratio.
FracOf(rat) == MulDiv(FracOne, rat[1], rat[2])
\* x * f and x / f for a fixed-point ratio f.
MulFrac(x, f) == MulDiv(x, f, FracOne)
DivFrac(x, f) == MulDiv(x, FracOne, f)

VARIABLES
    pc,                    \* where the run is
    loan_amount,           \* calculate_mortgage_schedule: its arguments ...
    annual_interest_rate,
    term_years,
    monthly_payment,       \* ... and its locals
    remaining_balance,
    payment_num,
    schedule,
    tax_args,              \* calculate_norwegian_tax: the arguments of a call
    tax_result,            \* ... and what the call gave (a result or an error)
    ui,                    \* the sidebar's values (src/app.py, lines 18-153)
    mortgage_yearly,       \* the yearly summary of the schedule
    year_index,            \* how many elements of years the loop has taken
    current_salary,        \* the state the loop carries from year to year
    current_expenses,
    current_wealth,
    cumulative_savings,
    financial_data,        \* the year records appended so far
    df                     \* the table handed to the presentation layer

schedule_vars == <<loan_amount, annual_interest_rate, term_years,
                   monthly_payment, remaining_balance, payment_num, schedule>>
tax_vars == <<tax_args, tax_result>>
loop_vars == <<year_index, current_salary, current_expenses, current_wealth,
               cumulative_savings, financial_data>>
app_vars == <<ui, mortgage_yearly, loop_vars, df>>
vars == <<pc, schedule_vars, tax_vars, app_vars>>

(***************************************************************************)
(* calculate_norwegian_tax (src/taxes.py).  Money in oere, the two         *)
(* interest rates fixed-point ratios, the tables' rates exact rationals.   *)
(***************************************************************************)

\* The 2024 deduction whatever the year.
personal_deduction_2024(year) == NOK(77700)

personal_deduction(year) == IF year = 2025 THEN NOK(79200) ELSE NOK(77700)

income_tax_rate(year) == <<22, 100>>

social_security_rates(year) ==
    [wage |-> <<80, 1000>>, self_employment |-> <<112, 1000>>, pension |-> <<51, 1000>>]

\* The 2024 table whatever the year.
bracket_tax_thresholds_2024(year) ==
    << <<NOK(0), <<0, 1>> >>,
       <<NOK(208050), <<17, 1000>> >>,
       <<NOK(293250), <<40, 1000>> >>,
       <<NOK(667650), <<137, 1000>> >>,
       <<NOK(902300), <<167, 1000>> >>,
       <<NOK(1350000), <<177, 1000>> >> >>

bracket_tax_thresholds(year) ==
    IF year = 2025
    THEN << <<NOK(0), <<0, 1>> >>,
            <<NOK(217400), <<17, 1000>> >>,
            <<NOK(306050), <<40, 1000>> >>,
            <<NOK(697150), <<137, 1000>> >>,
            <<NOK(942400), <<167, 1000>> >>,
            <<NOK(1410750), <<177, 1000>> >> >>
    ELSE << <<NOK(0), <<0, 1>> >>,
            <<NOK(208050), <<17, 1000>> >>,
            <<NOK(293250), <<40, 1000>> >>,
            <<NOK(667650), <<137, 1000>> >>,
            <<NOK(902300), <<167, 1000>> >>,
            <<NOK(1350000), <<177, 1000>> >> >>

\* The 2024 threshold used for both years.
wealth_tax_threshold_2024(year) == NOK(1700000)

wealth_tax_threshold(year) == IF year = 2025 THEN NOK(1760000) ELSE NOK(1700000)

municipal_wealth_tax_rate(year) == <<7, 1000>>

state_wealth_tax_thresholds(year) ==
    IF year = 2025
    THEN << <<NOK(1760000), <<525, 100000>> >>, <<NOK(20070000), <<1, 100>> >> >>
    ELSE << <<NOK(1700000), <<525, 100000>> >>, <<NOK(19970000), <<1, 100>> >> >>

primary_home_value_reduction(year) == <<25, 100>>

interest_deduction_rate(year) == <<22, 100>>

\* The validation without lines 47-48 (the bank balance is not checked).
ValidationErrorNoBankBalance(a) ==
    IF a.income < 0 THEN "Income cannot be negative"
    ELSE IF a.wealth < 0 THEN "Wealth cannot be negative"
    ELSE IF a.loans < 0 THEN "Loans cannot be negative"
    ELSE IF a.mortgage < 0 THEN "Mortgage cannot be negative"
    ELSE IF a.primary_home_value < 0 THEN "Primary home value cannot be negative"
    ELSE IF a.year \notin {2024, 2025} THEN "Tax year is not supported"
    ELSE IF a.income_type \notin {"wage", "self_employment", "pension"}
         THEN "Income type is not supported"
    ELSE ""

\* The first failing check of the validation, "" when the input passes.
ValidationError(a) ==
    IF a.income < 0 THEN "Income cannot be negative"
    ELSE IF a.wealth < 0 THEN "Wealth cannot be negative"
    ELSE IF a.loans < 0 THEN "Loans cannot be negative"
    ELSE IF a.mortgage < 0 THEN "Mortgage cannot be negative"
    ELSE IF a.primary_home_value < 0 THEN "Primary home value cannot be negative"
    ELSE IF a.bank_balance < 0 THEN "Bank balance cannot be negative"
    ELSE IF a.year \notin {2024, 2025} THEN "Tax year is not supported"
    ELSE IF a.income_type \notin {"wage", "self_employment", "pension"}
         THEN "Income type is not supported"
    ELSE ""

\* The loop without line 219: the remaining amount is not clamped to the
\* threshold, so a higher bracket's slice is taxed again by the lower ones.
RECURSIVE ProgressiveLoopNoClamp(_, _, _, _, _)
ProgressiveLoopNoClamp(table, i, stop, remaining, tax) ==
    IF i <= stop THEN tax
    ELSE IF remaining > table[i + 1][1]
         THEN ProgressiveLoopNoClamp(table, i - 1, stop, remaining,
                  tax + MulRat(remaining - table[i + 1][1], table[i + 1][2]))
         ELSE ProgressiveLoopNoClamp(table, i - 1, stop, remaining, tax)

\* The loop leaving at the first bracket it taxes: only the slice above the
\* highest threshold reached is taxed.
RECURSIVE ProgressiveLoopTopOnly(_, _, _, _, _)
ProgressiveLoopTopOnly(table, i, stop, remaining, tax) ==
    IF i <= stop THEN tax
    ELSE IF remaining > table[i + 1][1]
         THEN tax + MulRat(remaining - table[i + 1][1], table[i + 1][2])
         ELSE ProgressiveLoopTopOnly(table, i - 1, stop, remaining, tax)

\* for i in range(i, stop, -1): the table's rows are numbered from 0 in the
\* source and from 1 here.  Gives the tax accumulated.
RECURSIVE ProgressiveLoop(_, _, _, _, _)
ProgressiveLoop(table, i, stop, remaining, tax) ==
    IF i <= stop THEN tax
    ELSE LET threshold == table[i + 1][1]
             rate      == table[i + 1][2]
         IN  IF remaining > threshold
             THEN ProgressiveLoop(table, i - 1, stop, threshold,
                                  tax + MulRat(remaining - threshold, rate))
             ELSE ProgressiveLoop(table, i - 1, stop, remaining, tax)

BracketTax(income, year) ==
    ProgressiveLoop(bracket_tax_thresholds(year),
                    Len(bracket_tax_thresholds(year)) - 1, 0, income, 0)

StateWealthTax(net_wealth, year) ==
    ProgressiveLoop(state_wealth_tax_thresholds(year),
                    Len(state_wealth_tax_thresholds(year)) - 1, -1, net_wealth, 0)

TaxablePrimaryHomeValue(value, year) ==
    IF value > 0
    THEN IF value <= NOK(10000000)
         THEN MulRat(value, primary_home_value_reduction(year))
         ELSE MulRat(NOK(10000000), primary_home_value_reduction(year))
              + MulRat(value - NOK(10000000), <<5, 10>>)
    ELSE 0

\* The bank balance counted as wealth on top of the wealth given.
TaxComponentsBankBalanceAsWealth(a) ==
    LET total_interest == MulFrac(a.mortgage, a.mortgage_interest_rate)
                          + MulFrac(a.loans, a.other_loans_interest_rate)
        net_wealth     == Max(0, a.wealth + a.bank_balance - (a.loans + a.mortgage))
    IN  [interest_deduction   |-> -MulRat(total_interest, interest_deduction_rate(a.year)),
         social_security      |-> MulRat(a.income, social_security_rates(a.year)[a.income_type]),
         income_tax           |-> MulRat(Max(0, a.income - personal_deduction(a.year)
                                                - total_interest),
                                         income_tax_rate(a.year)),
         bracket_tax          |-> BracketTax(a.income, a.year),
         municipal_wealth_tax |-> Max(0, MulRat(net_wealth - wealth_tax_threshold(a.year),
                                                municipal_wealth_tax_rate(a.year))),
         state_wealth_tax     |-> StateWealthTax(net_wealth, a.year)]

TaxComponents(a) ==
    LET total_interest == MulFrac(a.mortgage, a.mortgage_interest_rate)
                          + MulFrac(a.loans, a.other_loans_interest_rate)
        net_wealth     == Max(0, a.wealth - (a.loans + a.mortgage))
    IN  [interest_deduction   |-> -MulRat(total_interest, interest_deduction_rate(a.year)),
         social_security      |-> MulRat(a.income, social_security_rates(a.year)[a.income_type]),
         income_tax           |-> MulRat(Max(0, a.income - personal_deduction(a.year)
                                                - total_interest),
                                         income_tax_rate(a.year)),
         bracket_tax          |-> BracketTax(a.income, a.year),
         municipal_wealth_tax |-> Max(0, MulRat(net_wealth - wealth_tax_threshold(a.year),
                                                municipal_wealth_tax_rate(a.year))),
         state_wealth_tax     |-> StateWealthTax(net_wealth, a.year)]

\* The sum with the interest deduction subtracted once more (a sign slip).
TotalTaxDeductionSign(c) ==
    c.social_security + c.income_tax + c.bracket_tax
    + c.municipal_wealth_tax + c.state_wealth_tax - c.interest_deduction

\* sum(result['tax_components'].values()), in the order the entries were made.
TotalTax(c) ==
    c.interest_deduction + c.social_security + c.income_tax + c.bracket_tax
    + c.municipal_wealth_tax + c.state_wealth_tax

\* The rate as a percentage instead of a fraction.
EffectiveTaxRatePercent(total_tax, income) ==
    IF income > 0 THEN MulDiv(total_tax, 100 * FracOne, income) ELSE 0

EffectiveTaxRate(total_tax, income) ==
    IF income > 0 THEN MulDiv(total_tax, FracOne, income) ELSE 0

calculate_norwegian_tax(a) ==
    IF ValidationError(a) # ""
    THEN [raised |-> TRUE, error |-> ValidationError(a)]
    ELSE LET c == TaxComponents(a)
         IN  [raised             |-> FALSE,
              income             |-> a.income,
              gross_wealth       |-> a.wealth,
              loans              |-> a.loans,
              mortgage           |-> a.mortgage,
              primary_home_value |-> a.primary_home_value,
              bank_balance       |-> a.bank_balance,
              income_type        |-> a.income_type,
              year               |-> a.year,
              total_debt         |-> a.loans + a.mortgage,
              net_wealth_for_tax |-> Max(0, a.wealth - (a.loans + a.mortgage)),
              total_interest     |-> MulFrac(a.mortgage, a.mortgage_interest_rate)
                                     + MulFrac(a.loans, a.other_loans_interest_rate),
              tax_components     |-> c,
              total_tax          |-> TotalTax(c),
              effective_tax_rate |-> EffectiveTaxRate(TotalTax(c), a.income)]


(***************************************************************************)
(* calculate_monthly_payment and calculate_mortgage_schedule (src/app.py). *)
(* annual_interest_rate is the slider's value in percent, an exact         *)
(* rational; loan_amount is money.                                         *)
(***************************************************************************)

\* base ** n for a fixed-point ratio base, by repeated squaring.
RECURSIVE PowFrac(_, _)
PowFrac(base, n) ==
    IF n = 0 THEN FracOne
    ELSE IF n < 0 THEN DivFrac(FracOne, PowFrac(base, -n))
    ELSE LET half   == PowFrac(base, n \div 2)
             square == MulFrac(half, half)
         IN  IF n % 2 = 1 THEN MulFrac(square, base) ELSE square

\* annual_rate / 100 / 12
MonthlyRate(annual_rate) == MulDiv(MulDiv(FracOf(annual_rate), 1, 100), 1, 12)

\* The formula with the number of years as the number of payments.
calculate_monthly_payment_per_year(principal, annual_rate, years) ==
    IF annual_rate[1] = 0 THEN MulDiv(principal, 1, years * 12)
    ELSE LET monthly_rate == MonthlyRate(annual_rate)
             growth       == PowFrac(FracOne + monthly_rate, years)
         IN  DivFrac(MulFrac(principal, MulFrac(monthly_rate, growth)),
                     growth - FracOne)

calculate_monthly_payment(principal, annual_rate, years) ==
    IF annual_rate[1] = 0 THEN MulDiv(principal, 1, years * 12)
    ELSE LET monthly_rate == MonthlyRate(annual_rate)
             num_payments == years * 12
             growth       == PowFrac(FracOne + monthly_rate, num_payments)
         IN  DivFrac(MulFrac(principal, MulFrac(monthly_rate, growth)),
                     growth - FracOne)

total_payments == term_years * 12

\* The principal spread over the years instead of the months.
InitialPaymentPerYear ==
    IF annual_interest_rate[1] = 0 THEN MulDiv(loan_amount, 1, term_years)
    ELSE calculate_monthly_payment(loan_amount, annual_interest_rate, term_years)

InitialPayment ==
    IF annual_interest_rate[1] = 0 THEN MulDiv(loan_amount, 1, total_payments)
    ELSE calculate_monthly_payment(loan_amount, annual_interest_rate, term_years)

\* The loop body without lines 176-178 and 182-183: the last payment is not
\* clamped to the balance and the balance is not floored at 0.
PaymentRecordUnclamped(num, balance, payment, monthly_rate) ==
    LET interest_payment == MulFrac(balance, monthly_rate)
    IN  [Payment_Number    |-> num,
         Year              |-> ((num - 1) \div 12) + 1,
         Monthly_Payment   |-> payment,
         Principal_Payment |-> payment - interest_payment,
         Interest_Payment  |-> interest_payment,
         Remaining_Balance |-> balance - (payment - interest_payment)]

\* The loop body without lines 176-178: the balance is floored at 0, the
\* principal payment is not clamped.
PaymentRecordFloorOnly(num, balance, payment, monthly_rate) ==
    LET interest_payment == MulFrac(balance, monthly_rate)
        left             == balance - (payment - interest_payment)
    IN  [Payment_Number    |-> num,
         Year              |-> ((num - 1) \div 12) + 1,
         Monthly_Payment   |-> payment,
         Principal_Payment |-> payment - interest_payment,
         Interest_Payment  |-> interest_payment,
         Remaining_Balance |-> IF left < 0 THEN 0 ELSE left]

\* The loop body with the year taken as payment_num // 12 + 1.
PaymentRecordYearFromNumber(num, balance, payment, monthly_rate) ==
    LET interest_payment == MulFrac(balance, monthly_rate)
        unclamped        == payment - interest_payment
        clamp            == unclamped > balance
        principal_payment == IF clamp THEN balance ELSE unclamped
        left             == balance - principal_payment
    IN  [Payment_Number    |-> num,
         Year              |-> (num \div 12) + 1,
         Monthly_Payment   |-> IF clamp THEN principal_payment + interest_payment
                               ELSE payment,
         Principal_Payment |-> principal_payment,
         Interest_Payment  |-> interest_payment,
         Remaining_Balance |-> IF left < 0 THEN 0 ELSE left]

\* The loop body without line 178: a clamped instalment leaves the carried
\* monthly payment as it was.
PaymentRecordKeepsPayment(num, balance, payment, monthly_rate) ==
    LET interest_payment == MulFrac(balance, monthly_rate)
        unclamped        == payment - interest_payment
        clamp            == unclamped > balance
        principal_payment == IF clamp THEN balance ELSE unclamped
        left             == balance - principal_payment
    IN  [Payment_Number    |-> num,
         Year              |-> ((num - 1) \div 12) + 1,
         Monthly_Payment   |-> payment,
         Principal_Payment |-> principal_payment,
         Interest_Payment  |-> interest_payment,
         Remaining_Balance |-> IF left < 0 THEN 0 ELSE left]

\* One pass of the loop body: the record appended and the values carried on.
PaymentRecord(num, balance, payment, monthly_rate) ==
    LET interest_payment == MulFrac(balance, monthly_rate)
        unclamped        == payment - interest_payment
        clamp            == unclamped > balance
        principal_payment == IF clamp THEN balance ELSE unclamped
        new_payment      == IF clamp THEN principal_payment + interest_payment
                            ELSE payment
        left             == balance - principal_payment
    IN  [Payment_Number    |-> num,
         Year              |-> ((num - 1) \div 12) + 1,
         Monthly_Payment   |-> new_payment,
         Principal_Payment |-> principal_payment,
         Interest_Payment  |-> interest_payment,
         Remaining_Balance |-> IF left < 0 THEN 0 ELSE left]

ScheduleStart ==
    /\ pc = "start"
    /\ monthly_payment' = InitialPayment
    /\ remaining_balance' = loan_amount
    /\ schedule' = <<>>
    /\ payment_num' = 1
    /\ pc' = "loop"
    /\ UNCHANGED <<loan_amount, annual_interest_rate, term_years, tax_vars, app_vars>>

SchedulePayment ==
    /\ pc = "loop"
    /\ payment_num <= total_payments
    /\ LET rec == PaymentRecord(payment_num, remaining_balance, monthly_payment,
                                MonthlyRate(annual_interest_rate))
       IN  /\ schedule' = Append(schedule, rec)
           /\ monthly_payment' = rec.Monthly_Payment
           /\ remaining_balance' = rec.Remaining_Balance
    /\ payment_num' = payment_num + 1
    /\ UNCHANGED <<pc, loan_amount, annual_interest_rate, term_years, tax_vars, app_vars>>

ScheduleReturn ==
    /\ pc = "loop"
    /\ payment_num > total_payments
    /\ pc' = "returned"
    /\ UNCHANGED <<schedule_vars, tax_vars, app_vars>>

NoTaxCall == [income |-> 0]
NoTaxResult == [raised |-> FALSE, pending |-> TRUE]

\* The application's variables where only a function of it runs.
AppIdle ==
    /\ ui = [base_salary |-> 0]
    /\ mortgage_yearly = <<>>
    /\ year_index = 0
    /\ current_salary = 0
    /\ current_expenses = [groceries |-> 0]
    /\ current_wealth = 0
    /\ cumulative_savings = 0
    /\ financial_data = <<>>
    /\ df = <<>>

\* Loans of the schedule's own specification: valid loans, the rate 0 and
\* a one-year term among them.
MaxTermYears == 3
LoanAmounts == {NOK(123450), NOK(500000), NOK(2000000)}
AnnualRates == {<<0, 1>>, <<2, 1>>, <<55, 10>>, <<579, 100>>, <<10, 1>>}

InitSchedule ==
    /\ pc = "start"
    /\ loan_amount \in LoanAmounts
    /\ annual_interest_rate \in AnnualRates
    /\ term_years \in 1..MaxTermYears
    /\ monthly_payment = 0
    /\ remaining_balance = 0
    /\ payment_num = 0
    /\ schedule = <<>>
    /\ tax_args = NoTaxCall
    /\ tax_result = NoTaxResult
    /\ AppIdle

NextSchedule == ScheduleStart \/ SchedulePayment \/ ScheduleReturn

SpecSchedule == InitSchedule /\ [][NextSchedule]_vars

(***************************************************************************)
(* calculate_mortgage_schedule called with arguments of either sign: the   *)
(* function checks none of them (lines 159-170).                           *)
(***************************************************************************)
AnyLoanAmounts == {NOK(-100000), NOK(500000)}
AnyTermYears == {-2, -1, 1, 2}

InitScheduleAnyArgs ==
    /\ pc = "start"
    /\ loan_amount \in AnyLoanAmounts
    /\ annual_interest_rate \in AnnualRates
    /\ term_years \in AnyTermYears
    /\ monthly_payment = 0
    /\ remaining_balance = 0
    /\ payment_num = 0
    /\ schedule = <<>>
    /\ tax_args = NoTaxCall
    /\ tax_result = NoTaxResult
    /\ AppIdle

SpecScheduleAnyArgs == InitScheduleAnyArgs /\ [][NextSchedule]_vars

(***************************************************************************)
(* calculate_mortgage_schedule for loans of a few units of the number      *)
(* grid, next to an ordinary one.  The instalment of such a loan is        *)
(* rounded to a whole unit, so the loan can be paid off before the last    *)
(* record (in the source's floats: a loan of 7 * 5e-324 over 12 months is  *)
(* paid off by record 7).                                                   *)
(***************************************************************************)
SmallLoanAmounts == {7, 100, NOK(500000)}

InitScheduleSmallLoans ==
    /\ pc = "start"
    /\ loan_amount \in SmallLoanAmounts
    /\ annual_interest_rate \in AnnualRates
    /\ term_years \in 1..MaxTermYears
    /\ monthly_payment = 0
    /\ remaining_balance = 0
    /\ payment_num = 0
    /\ schedule = <<>>
    /\ tax_args = NoTaxCall
    /\ tax_result = NoTaxResult
    /\ AppIdle

SpecScheduleSmallLoans == InitScheduleSmallLoans /\ [][NextSchedule]_vars

(***************************************************************************)
(* calculate_mortgage_schedule in floating point.  Above, a sum or a       *)
(* difference of two amounts is exact; a float rounds those as well, to    *)
(* the precision its magnitude leaves.  Here an amount is a decimal float  *)
(* of FloatDigits significant digits: below 10^FloatDigits oere it is      *)
(* exact to the oere, above it is a multiple of 10, 100, ... oere, and     *)
(* every operation of the loop body rounds its result to that grid (ties   *)
(* away from zero).  A double has 53 bits instead; which operations round  *)
(* is the same.                                                            *)
(***************************************************************************)
FloatDigits == 7
FloatLimit == 10 ^ FloatDigits

RECURSIVE FloatGrid(_)
FloatGrid(x) == IF Abs(x) < FloatLimit THEN 1 ELSE 10 * FloatGrid(Abs(x) \div 10)

Fl(x) ==
    LET g == FloatGrid(x)
        r == ((Abs(x) + (g \div 2)) \div g) * g
    IN  IF x >= 0 THEN r ELSE -r

\* The loop body without the interest taken off the payment.
PaymentRecordFloatAllPrincipal(num, balance, payment, monthly_rate) ==
    LET interest_payment == Fl(MulFrac(balance, monthly_rate))
        clamp            == payment > balance
        principal_payment == IF clamp THEN balance ELSE payment
        left             == Fl(balance - principal_payment)
    IN  [Payment_Number    |-> num,
         Year              |-> ((num - 1) \div 12) + 1,
         Monthly_Payment   |-> IF clamp THEN Fl(principal_payment + interest_payment)
                               ELSE payment,
         Principal_Payment |-> principal_payment,
         Interest_Payment  |-> interest_payment,
         Remaining_Balance |-> IF left < 0 THEN 0 ELSE left]

\* One pass of the loop body (lines 173-194), each operation rounded.
PaymentRecordFloat(num, balance, payment, monthly_rate) ==
    LET interest_payment == Fl(MulFrac(balance, monthly_rate))
        unclamped        == Fl(payment - interest_payment)
        clamp            == unclamped > balance
        principal_payment == IF clamp THEN balance ELSE unclamped
        new_payment      == IF clamp THEN Fl(principal_payment + interest_payment)
                            ELSE payment
        left             == Fl(balance - principal_payment)
    IN  [Payment_Number    |-> num,
         Year              |-> ((num - 1) \div 12) + 1,
         Monthly_Payment   |-> new_payment,
         Principal_Payment |-> principal_payment,
         Interest_Payment  |-> interest_payment,
         Remaining_Balance |-> IF left < 0 THEN 0 ELSE left]

ScheduleStartFloat ==
    /\ pc = "start"
    /\ monthly_payment' = Fl(InitialPayment)
    /\ remaining_balance' = loan_amount
    /\ schedule' = <<>>
    /\ payment_num' = 1
    /\ pc' = "loop"
    /\ UNCHANGED <<loan_amount, annual_interest_rate, term_years, tax_vars, app_vars>>

SchedulePaymentFloat ==
    /\ pc = "loop"
    /\ payment_num <= total_payments
    /\ LET rec == PaymentRecordFloat(payment_num, remaining_balance, monthly_payment,
                                     MonthlyRate(annual_interest_rate))
       IN  /\ schedule' = Append(schedule, rec)
           /\ monthly_payment' = rec.Monthly_Payment
           /\ remaining_balance' = rec.Remaining_Balance
    /\ payment_num' = payment_num + 1
    /\ UNCHANGED <<pc, loan_amount, annual_interest_rate, term_years, tax_vars, app_vars>>

FloatLoanAmounts == {NOK(500000), NOK(2000000), NOK(3000000)}

InitScheduleFloat ==
    /\ pc = "start"
    /\ loan_amount \in FloatLoanAmounts
    /\ annual_interest_rate \in AnnualRates
    /\ term_years \in 1..MaxTermYears
    /\ monthly_payment = 0
    /\ remaining_balance = 0
    /\ payment_num = 0
    /\ schedule = <<>>
    /\ tax_args = NoTaxCall
    /\ tax_result = NoTaxResult
    /\ AppIdle

NextScheduleFloat == ScheduleStartFloat \/ SchedulePaymentFloat \/ ScheduleReturn

SpecScheduleFloat == InitScheduleFloat /\ [][NextScheduleFloat]_vars

(***************************************************************************)
(* calculate_monthly_payment on its own, as the sidebar calls it to show   *)
(* the payment (line 141), for loans of 5 to 30 years.                     *)
(***************************************************************************)
PaymentCall ==
    /\ pc = "payment_call"
    /\ monthly_payment' = calculate_monthly_payment(loan_amount, annual_interest_rate,
                                                    term_years)
    /\ pc' = "payment_done"
    /\ UNCHANGED <<loan_amount, annual_interest_rate, term_years, remaining_balance,
                   payment_num, schedule, tax_vars, app_vars>>

PaymentTermYears == {5, 10, 15, 20, 25, 30}

InitPayment ==
    /\ pc = "payment_call"
    /\ loan_amount \in LoanAmounts
    /\ annual_interest_rate \in AnnualRates
    /\ term_years \in PaymentTermYears
    /\ monthly_payment = 0
    /\ remaining_balance = 0
    /\ payment_num = 0
    /\ schedule = <<>>
    /\ tax_args = NoTaxCall
    /\ tax_result = NoTaxResult
    /\ AppIdle

NextPayment == PaymentCall

SpecPayment == InitPayment /\ [][NextPayment]_vars

(***************************************************************************)
(* The tax calculator on its own: one call with arguments from small sets, *)
(* among them each kind of invalid argument, both profiles' thresholds and *)
(* net wealth on both sides of the two state wealth-tax thresholds.        *)
(***************************************************************************)
TaxIncomes == {NOK(-1), NOK(0), NOK(217400), NOK(300000), NOK(306050), NOK(675000),
               NOK(697150), NOK(942400), NOK(1410750), NOK(1500000)}
TaxWealths == {NOK(-1), NOK(0), NOK(1760000), NOK(3000000), NOK(20070000), NOK(21000000)}
TaxLoans == {NOK(-1), NOK(0), NOK(500000)}
TaxMortgages == {NOK(-1), NOK(0), NOK(2000000)}
TaxYears == {2023, 2024, 2025, 2026}
TaxHomeValues == {NOK(-1), NOK(0), NOK(4000000)}
TaxBankBalances == {NOK(-1), NOK(0), NOK(200000)}
TaxIncomeTypes == {"wage", "self_employment", "pension", "capital"}

TaxArgs ==
    [income : TaxIncomes, wealth : TaxWealths, loans : TaxLoans,
     mortgage : TaxMortgages, year : TaxYears,
     primary_home_value : TaxHomeValues, bank_balance : TaxBankBalances,
     income_type : TaxIncomeTypes,
     mortgage_interest_rate : {FracOf(<<4, 100>>)},
     other_loans_interest_rate : {FracOf(<<6, 100>>)}]

InitTax ==
    /\ pc = "tax_call"
    /\ tax_args \in TaxArgs
    /\ tax_result = NoTaxResult
    /\ loan_amount = 0
    /\ annual_interest_rate = <<0, 1>>
    /\ term_years = 0
    /\ monthly_payment = 0
    /\ remaining_balance = 0
    /\ payment_num = 0
    /\ schedule = <<>>
    /\ AppIdle

TaxCall ==
    /\ pc = "tax_call"
    /\ tax_result' = calculate_norwegian_tax(tax_args)
    /\ pc' = "tax_done"
    /\ UNCHANGED <<tax_args, schedule_vars, app_vars>>

NextTax == TaxCall

SpecTax == InitTax /\ [][NextTax]_vars

(***************************************************************************)
(* The application script (src/app.py): the sidebar's values, the schedule *)
(* of the loan, its yearly summary, the projection loop and the table.     *)
(* The loan's three sidebar values are the schedule's parameters           *)
(* loan_amount, annual_interest_rate and term_years (line 215).            *)
(***************************************************************************)
\* x / 100 for a sidebar percentage x, and 1 + x / 100.
Percent(rate) == MulDiv(FracOf(rate), 1, 100)
OnePlusPercent(rate) == FracOne + Percent(rate)

\* range(1, 30), one year short of the horizon.
years_upto_29 == [i \in 1..29 |-> i]

\* list(range(1, 31))
years == [i \in 1..30 |-> i]

RECURSIVE SumColumn(_, _)
SumColumn(rows, col) ==
    IF rows = <<>> THEN 0 ELSE rows[1][col] + SumColumn(Tail(rows), col)

RECURSIVE SortedSeq(_)
SortedSeq(S) ==
    IF S = {} THEN <<>>
    ELSE LET m == CHOOSE x \in S : \A z \in S : x <= z
         IN  <<m>> \o SortedSeq(S \ {m})

\* group_by('Year').agg(...).sort('Year')
GroupByYear(rows) ==
    LET ys == SortedSeq({rows[k].Year : k \in 1..Len(rows)})
        OfYear(y) == SelectSeq(rows, LAMBDA r : r.Year = y)
    IN  [i \in 1..Len(ys) |->
            [Year |-> ys[i],
             Annual_Mortgage_Payment |-> SumColumn(OfYear(ys[i]), "Monthly_Payment"),
             Annual_Principal |-> SumColumn(OfYear(ys[i]), "Principal_Payment"),
             Annual_Interest |-> SumColumn(OfYear(ys[i]), "Interest_Payment")]]

\* The balance after the first payment of each year instead of the twelfth.
remaining_balance_first_of_year(rows, loan_term_years) ==
    LET first == SelectSeq(rows, LAMBDA r : r.Payment_Number % 12 = 1)
    IN  [i \in 1..Len(first) |->
            [Year |-> first[i].Year, Year_End_Balance |-> first[i].Remaining_Balance]]

\* The balance after each twelfth payment, and the last payment's when the
\* rows are fewer than the loan's years.
remaining_balance_yearly(rows, loan_term_years) ==
    LET twelfth == SelectSeq(rows, LAMBDA r : r.Payment_Number % 12 = 0)
        ends == [i \in 1..Len(twelfth) |->
                    [Year |-> twelfth[i].Year,
                     Year_End_Balance |-> twelfth[i].Remaining_Balance]]
    IN  IF Len(ends) < loan_term_years
        THEN Append(ends, [Year |-> rows[Len(rows)].Year,
                           Year_End_Balance |-> rows[Len(rows)].Remaining_Balance])
        ELSE ends

\* join(..., on='Year', how='left') and fill_null(0)
RECURSIVE LeftJoin(_, _)
LeftJoin(left, right) ==
    IF left = <<>> THEN <<>>
    ELSE LET row == left[1]
             m == SelectSeq(right, LAMBDA r : r.Year = row.Year)
             With(b) == [Year |-> row.Year,
                         Annual_Mortgage_Payment |-> row.Annual_Mortgage_Payment,
                         Annual_Principal |-> row.Annual_Principal,
                         Annual_Interest |-> row.Annual_Interest,
                         Year_End_Balance |-> b]
         IN  (IF m = <<>> THEN <<With(0)>>
              ELSE [k \in 1..Len(m) |-> With(m[k].Year_End_Balance)])
             \o LeftJoin(Tail(left), right)

MortgageYearly(rows, loan_term_years) ==
    LeftJoin(GroupByYear(rows), remaining_balance_yearly(rows, loan_term_years))

Aggregate ==
    /\ pc = "returned"
    /\ mortgage_yearly' = MortgageYearly(schedule, term_years)
    /\ cumulative_savings' = 0
    /\ pc' = "project"
    /\ UNCHANGED <<schedule_vars, tax_vars, ui, df, year_index, current_salary,
                   current_expenses, current_wealth, financial_data>>

\* The loop's year, and the steps of one iteration up to the tax call
\* (lines 255-283).
NextYear == years[year_index + 1]
\* The tax year counted from 2024 in the first year of the projection.
tax_year_from_2024(y) == Min(2025, 2023 + y)

tax_year(y) == Min(2025, 2024 + y)

HasMortgageRow(y) == y <= Len(mortgage_yearly)
mortgage_row(y) == SelectSeq(mortgage_yearly, LAMBDA r : r.Year = y)[1]
\* The balance at the start of the year instead of at its end.
remaining_mortgage_start_of_year(y) ==
    IF HasMortgageRow(y)
    THEN mortgage_row(y).Year_End_Balance + mortgage_row(y).Annual_Principal
    ELSE 0

remaining_mortgage(y) == IF HasMortgageRow(y) THEN mortgage_row(y).Year_End_Balance ELSE 0

\* The savings added to the wealth without their return.
WealthOfYearWithoutReturn(y) ==
    IF y > 1
    THEN current_wealth + financial_data[Len(financial_data)].Annual_Savings
    ELSE current_wealth

WealthOfYear(y) ==
    IF y > 1
    THEN current_wealth + MulFrac(financial_data[Len(financial_data)].Annual_Savings,
                                  OnePlusPercent(ui.savings_return_rate))
    ELSE current_wealth

ProjectionTaxArgs(y) ==
    [income |-> current_salary,
     wealth |-> WealthOfYear(y),
     loans |-> ui.other_loans,
     mortgage |-> remaining_mortgage(y),
     year |-> tax_year(y),
     primary_home_value |-> ui.primary_home_value,
     bank_balance |-> ui.bank_balance,
     income_type |-> ui.income_type,
     mortgage_interest_rate |-> Percent(annual_interest_rate),
     other_loans_interest_rate |-> Percent(ui.other_loans_interest_rate)]

\* The expenses of the year (lines 297-308): the first year's as entered,
\* each later year's grown by the cost-of-living rate.
ExpenseCategories == {"Joint_Dept", "groceries", "utilities", "transportation",
                      "entertainment", "other_expenses"}
\* The expenses grown by the inflation rate instead of the cost-of-living rate.
ExpensesGrownByInflation(y) ==
    IF y = 1 THEN current_expenses
    ELSE [c \in ExpenseCategories |->
             MulFrac(current_expenses[c], OnePlusPercent(ui.inflation_rate))]

\* The increase applied in the first year as well.
ExpensesGrownFromYearOne(y) ==
    [c \in ExpenseCategories |->
        MulFrac(current_expenses[c], OnePlusPercent(ui.cost_of_living_increase))]

ExpensesOfYear(y) ==
    IF y = 1 THEN current_expenses
    ELSE [c \in ExpenseCategories |->
             MulFrac(current_expenses[c], OnePlusPercent(ui.cost_of_living_increase))]

\* The exponent taken as the year instead of the years elapsed.
inflation_factor_exponent_year(y) ==
    DivFrac(FracOne, PowFrac(OnePlusPercent(ui.inflation_rate), y))

inflation_factor(y) == DivFrac(FracOne, PowFrac(OnePlusPercent(ui.inflation_rate), y - 1))

\* The return applied to the new contribution as well.
CumulativeSavingsReturnOnAll(y, annual_savings_potential) ==
    IF y = 1 THEN annual_savings_potential
    ELSE MulFrac(cumulative_savings + annual_savings_potential,
                 OnePlusPercent(ui.savings_return_rate))

CumulativeSavingsOfYear(y, annual_savings_potential) ==
    IF y = 1 THEN annual_savings_potential
    ELSE MulFrac(cumulative_savings, OnePlusPercent(ui.savings_return_rate))
         + annual_savings_potential

\* The record of one year (lines 286-395), from the tax result.
YearRecord(y, tax) ==
    LET gross_salary == current_salary
        net_salary == MulFrac(gross_salary, FracOne - tax.effective_tax_rate)
        gross_monthly == MulDiv(gross_salary, 1, 12)
        net_monthly == MulDiv(net_salary, 1, 12)
        year_expenses == ExpensesOfYear(y)
        monthly_total_expenses ==
            year_expenses["Joint_Dept"] + year_expenses["groceries"]
            + year_expenses["utilities"] + year_expenses["transportation"]
            + year_expenses["entertainment"] + year_expenses["other_expenses"]
        annual_mortgage ==
            IF HasMortgageRow(y) THEN mortgage_row(y).Annual_Mortgage_Payment ELSE 0
        monthly_mortgage == IF HasMortgageRow(y) THEN MulDiv(annual_mortgage, 1, 12) ELSE 0
        monthly_outflow == monthly_total_expenses + monthly_mortgage
        monthly_savings_potential == net_monthly - monthly_outflow
        annual_savings_potential == monthly_savings_potential * 12
        factor == inflation_factor(y)
        cumulative == CumulativeSavingsOfYear(y, annual_savings_potential)
    IN  [Year |-> y,
         Gross_Salary |-> gross_salary,
         Net_Salary |-> net_salary,
         Gross_Monthly |-> gross_monthly,
         Net_Monthly |-> net_monthly,
         Joint_Dept |-> year_expenses["Joint_Dept"],
         Groceries |-> year_expenses["groceries"],
         Utilities |-> year_expenses["utilities"],
         Transportation |-> year_expenses["transportation"],
         Entertainment |-> year_expenses["entertainment"],
         Other_Expenses |-> year_expenses["other_expenses"],
         Monthly_Expenses |-> monthly_total_expenses,
         Annual_Expenses |-> monthly_total_expenses * 12,
         Monthly_Mortgage |-> monthly_mortgage,
         Annual_Mortgage |-> annual_mortgage,
         Annual_Principal |->
             IF HasMortgageRow(y) THEN mortgage_row(y).Annual_Principal ELSE 0,
         Annual_Interest |->
             IF HasMortgageRow(y) THEN mortgage_row(y).Annual_Interest ELSE 0,
         Remaining_Balance |->
             IF HasMortgageRow(y) THEN mortgage_row(y).Year_End_Balance ELSE 0,
         Monthly_Outflow |-> monthly_outflow,
         Annual_Outflow |-> monthly_outflow * 12,
         Monthly_Savings |-> monthly_savings_potential,
         Annual_Savings |-> annual_savings_potential,
         Cumulative_Savings |-> cumulative,
         Real_Cumulative_Savings |-> MulFrac(cumulative, factor),
         Inflation_Factor |-> factor,
         Real_Net_Salary |-> MulFrac(net_salary, factor),
         Real_Monthly_Income |-> MulFrac(net_monthly, factor),
         Real_Monthly_Expenses |-> MulFrac(monthly_total_expenses, factor),
         Real_Monthly_Mortgage |-> MulFrac(monthly_mortgage, factor),
         Real_Monthly_Savings |-> MulFrac(monthly_savings_potential, factor),
         Total_Tax |-> tax.total_tax,
         Effective_Tax_Rate |-> tax.effective_tax_rate,
         Income_Tax |-> tax.tax_components.income_tax,
         Bracket_Tax |-> tax.tax_components.bracket_tax,
         Social_Security |-> tax.tax_components.social_security,
         Interest_Deduction |-> tax.tax_components.interest_deduction,
         Municipal_Wealth_Tax |-> tax.tax_components.municipal_wealth_tax,
         State_Wealth_Tax |-> tax.tax_components.state_wealth_tax,
         Current_Wealth |-> WealthOfYear(y)]

\* One iteration of the loop whose tax call returns (lines 253-398).
ProjectYear ==
    /\ pc = "project"
    /\ year_index < Len(years)
    /\ LET y == NextYear
           tax == calculate_norwegian_tax(ProjectionTaxArgs(y))
           record == YearRecord(y, tax)
       IN  /\ ~tax.raised
           /\ tax_args' = ProjectionTaxArgs(y)
           /\ tax_result' = tax
           /\ current_wealth' = WealthOfYear(y)
           /\ current_expenses' = ExpensesOfYear(y)
           /\ cumulative_savings' = record.Cumulative_Savings
           /\ financial_data' = Append(financial_data, record)
           /\ current_salary' = MulFrac(current_salary, OnePlusPercent(ui.annual_increase))
    /\ year_index' = year_index + 1
    /\ UNCHANGED <<pc, schedule_vars, ui, mortgage_yearly, df>>

\* The tax call's error swallowed: the year is skipped and the loop goes on.
ProjectRaiseSkipYear ==
    /\ pc = "project"
    /\ year_index < Len(years)
    /\ LET y == NextYear
           tax == calculate_norwegian_tax(ProjectionTaxArgs(y))
       IN  /\ tax.raised
           /\ tax_args' = ProjectionTaxArgs(y)
           /\ tax_result' = tax
           /\ current_wealth' = WealthOfYear(y)
    /\ year_index' = year_index + 1
    /\ UNCHANGED <<pc, schedule_vars, ui, mortgage_yearly, df, current_salary,
                   current_expenses, cumulative_savings, financial_data>>

\* An iteration whose tax call raises ValueError: nothing catches it, the
\* script ends there (lines 253-283).
ProjectRaise ==
    /\ pc = "project"
    /\ year_index < Len(years)
    /\ LET y == NextYear
           tax == calculate_norwegian_tax(ProjectionTaxArgs(y))
       IN  /\ tax.raised
           /\ tax_args' = ProjectionTaxArgs(y)
           /\ tax_result' = tax
           /\ current_wealth' = WealthOfYear(y)
    /\ year_index' = year_index + 1
    /\ pc' = "raised"
    /\ UNCHANGED <<schedule_vars, ui, mortgage_yearly, df, current_salary,
                   current_expenses, cumulative_savings, financial_data>>

\* df = pl.DataFrame(financial_data), after the loop (line 401).
BuildDf ==
    /\ pc = "project"
    /\ year_index = Len(years)
    /\ df' = financial_data
    /\ pc' = "done"
    /\ UNCHANGED <<schedule_vars, tax_vars, ui, mortgage_yearly, loop_vars>>

\* The sidebar's values (lines 18-153): each within its widget's range.
MinLoanTermYears == 5
UiLoanAmounts == {NOK(0), NOK(1000000), NOK(2000000)}
UiInterestRates == {<<55, 10>>}
UiValues ==
    [base_salary : {NOK(300000), NOK(500000)},
     annual_increase : {<<0, 1>>, <<3, 1>>},
     income_type : {"wage"},
     initial_wealth : {NOK(0), NOK(1000000)},
     primary_home_value : {NOK(4000000)},
     other_loans : {NOK(0)},
     bank_balance : {NOK(200000)},
     other_loans_interest_rate : {<<6, 1>>},
     inflation_rate : {<<0, 1>>, <<1, 10>>, <<2, 1>>, <<10, 1>>},
     cost_of_living_increase : {<<0, 1>>, <<25, 10>>},
     savings_return_rate : {<<3, 1>>},
     joint_dept : {NOK(2750)},
     groceries : {NOK(5000)},
     utilities : {NOK(2000)},
     transportation : {NOK(1500)},
     entertainment : {NOK(2000)},
     other_expenses : {NOK(3000)}]

\* The script up to the call of calculate_mortgage_schedule (lines 18-215).
Init ==
    /\ pc = "start"
    /\ ui \in UiValues
    /\ loan_amount \in UiLoanAmounts
    /\ annual_interest_rate \in UiInterestRates
    /\ term_years = MinLoanTermYears
    /\ monthly_payment = 0
    /\ remaining_balance = 0
    /\ payment_num = 0
    /\ schedule = <<>>
    /\ tax_args = NoTaxCall
    /\ tax_result = NoTaxResult
    /\ mortgage_yearly = <<>>
    /\ year_index = 0
    /\ financial_data = <<>>
    /\ current_salary = ui.base_salary
    /\ current_expenses = [c \in ExpenseCategories |->
                              CASE c = "Joint_Dept" -> ui.joint_dept
                                [] c = "groceries" -> ui.groceries
                                [] c = "utilities" -> ui.utilities
                                [] c = "transportation" -> ui.transportation
                                [] c = "entertainment" -> ui.entertainment
                                [] OTHER -> ui.other_expenses]
    /\ current_wealth = ui.initial_wealth
    /\ cumulative_savings = 0
    /\ df = <<>>

Next ==
    \/ ScheduleStart
    \/ SchedulePayment
    \/ ScheduleReturn
    \/ Aggregate
    \/ ProjectYear
    \/ ProjectRaise
    \/ BuildDf

Spec == Init /\ [][Next]_vars

(***************************************************************************)
(* The claims about the amortization schedule (SpecSchedule).              *)
(***************************************************************************)
Returned == pc = "returned"
FinalBalance == schedule[Len(schedule)].Remaining_Balance

BalancesNonNegative == \A k \in 1..Len(schedule) : schedule[k].Remaining_Balance >= 0
BalancesNonIncreasing ==
    \A k \in 1..(Len(schedule) - 1) :
        schedule[k + 1].Remaining_Balance <= schedule[k].Remaining_Balance

RECURSIVE SumPrincipal(_)
SumPrincipal(k) ==
    IF k = 0 THEN 0 ELSE SumPrincipal(k - 1) + schedule[k].Principal_Payment

C15_TwelveRecordsPerYear ==
    /\ \A k \in 1..Len(schedule) :
           /\ schedule[k].Payment_Number = k
           /\ schedule[k].Year = ((k - 1) \div 12) + 1
    /\ Returned =>
           /\ Len(schedule) = 12 * term_years
           /\ \A k \in 1..Len(schedule) : schedule[k].Year \in 1..term_years
           /\ \A y \in 1..term_years :
                  Cardinality({k \in 1..Len(schedule) : schedule[k].Year = y}) = 12

\* A schedule of two years returned, the thirteenth payment opening year 2.
C15_Witness ==
    /\ Returned
    /\ term_years = 2
    /\ Len(schedule) = 24
    /\ schedule[12].Year = 1
    /\ schedule[13].Year = 2

\* C16 as stated: at the annual rate 0 the payment is principal /
\* (term_years * 12), and every record has Interest_Payment 0 and a
\* Principal_Payment equal to that payment.
C16_ZeroRateEveryInstalmentTheQuotient ==
    (annual_interest_rate[1] = 0 /\ pc # "start") =>
        \A k \in 1..Len(schedule) :
            /\ schedule[k].Interest_Payment = 0
            /\ schedule[k].Principal_Payment = MulDiv(loan_amount, 1, term_years * 12)

\* C16 amended: at the annual rate 0 the payment is principal / (term_years * 12),
\* taken from the rate-0 branch and not from the annuity formula; every
\* record has Interest_Payment 0 and a Principal_Payment equal to its
\* Monthly_Payment, which is that quotient in every record before the last
\* (the last payment may be clipped to the balance that is left).
C16_ZeroRateEqualInstalments ==
    (annual_interest_rate[1] = 0 /\ pc # "start") =>
        /\ schedule = <<>> => monthly_payment = MulDiv(loan_amount, 1, term_years * 12)
        /\ \A k \in 1..Len(schedule) :
               /\ schedule[k].Interest_Payment = 0
               /\ schedule[k].Principal_Payment = schedule[k].Monthly_Payment
               /\ k < 12 * term_years =>
                      schedule[k].Monthly_Payment
                          = MulDiv(loan_amount, 1, term_years * 12)
               /\ schedule[k].Monthly_Payment
                      <= MulDiv(loan_amount, 1, term_years * 12)

\* A schedule at rate 0 returned in full, paid in equal instalments.
C16_Witness ==
    /\ Returned
    /\ annual_interest_rate[1] = 0
    /\ Len(schedule) = 12 * term_years
    /\ term_years >= 2
    /\ schedule[1].Principal_Payment > 0
    /\ schedule[1].Principal_Payment = schedule[Len(schedule) - 1].Principal_Payment

(***************************************************************************)
(* The claim about the payment formula (SpecPayment).                      *)
(***************************************************************************)
ExampleLoan ==
    /\ pc = "payment_done"
    /\ loan_amount = NOK(2000000)
    /\ annual_interest_rate = <<579, 100>>
    /\ term_years = 30

\* C22 as stated: for 2,000,000 at 5.79 % over 30 years the annuity formula
\* gives a monthly payment of about 11,739 NOK (within one krone).
C22_PaymentAbout11739 ==
    ExampleLoan => Abs(monthly_payment - NOK(11739)) < NOK(1)

\* C22 amended: for 2,000,000 at 5.79 % over 30 years the annuity formula
\* gives a monthly payment of about 11,722 NOK (within one krone).
C22_PaymentAbout11722 ==
    ExampleLoan => Abs(monthly_payment - NOK(11722)) < NOK(1)

C22_Witness == ExampleLoan /\ monthly_payment > 0

(***************************************************************************)
(* The claims about the schedule's rounded sums (SpecScheduleFloat).       *)
(***************************************************************************)
BalanceBefore(k) == IF k = 1 THEN loan_amount ELSE schedule[k - 1].Remaining_Balance
PrincipalPlusInterest(k) ==
    Fl(schedule[k].Principal_Payment + schedule[k].Interest_Payment)

TaxDone == pc = "tax_done"
Accepted == TaxDone /\ ~tax_result.raised
Components == tax_result.tax_components
NetWealthOf(a) == Max(0, a.wealth - (a.loans + a.mortgage))

InvalidArgs(a) ==
    \/ a.income < 0 \/ a.wealth < 0 \/ a.loans < 0 \/ a.mortgage < 0
    \/ a.primary_home_value < 0 \/ a.bank_balance < 0
    \/ a.year # 2024 /\ a.year # 2025
    \/ a.income_type # "wage" /\ a.income_type # "self_employment"
       /\ a.income_type # "pension"

\* C3: the call raises an error and gives no result exactly when an amount
\* is negative, the year is neither 2024 nor 2025, or the income type is
\* none of the three; every other call gives a result.
C3_RejectsExactlyInvalidArgs ==
    TaxDone =>
        /\ tax_result.raised <=> InvalidArgs(tax_args)
        /\ tax_result.raised => "total_tax" \notin DOMAIN tax_result
        /\ ~tax_result.raised => "total_tax" \in DOMAIN tax_result

\* A call rejected for its negative bank balance alone.
C3_Witness ==
    /\ TaxDone
    /\ tax_result.raised
    /\ tax_args.bank_balance < 0
    /\ InvalidArgs([tax_args EXCEPT !.bank_balance = 0]) = FALSE

\* C4: total_tax is the sum of exactly six components, income_tax,
\* bracket_tax, social_security, municipal_wealth_tax, state_wealth_tax and
\* interest_deduction, the last one entering as a number <= 0.
C4_TotalIsSumOfSixComponents ==
    Accepted =>
        /\ DOMAIN Components = {"income_tax", "bracket_tax", "social_security",
                                "municipal_wealth_tax", "state_wealth_tax",
                                "interest_deduction"}
        /\ Components.interest_deduction <= 0
        /\ tax_result.total_tax =
               Components.income_tax + Components.bracket_tax
               + Components.social_security + Components.municipal_wealth_tax
               + Components.state_wealth_tax + Components.interest_deduction

\* An accepted call with interest to deduct and every kind of tax due.
C4_Witness ==
    /\ Accepted
    /\ Components.interest_deduction < 0
    /\ Components.income_tax > 0
    /\ Components.bracket_tax > 0
    /\ Components.municipal_wealth_tax > 0
    /\ Components.state_wealth_tax > 0

\* C5: effective_tax_rate is 0 when income is 0, whatever the total tax, and
\* is total_tax / income (to the nearest unit of the ratio) when income > 0.
C5_EffectiveRate ==
    Accepted =>
        /\ tax_args.income = 0 => tax_result.effective_tax_rate = 0
        /\ tax_args.income > 0 =>
               Abs(MulFrac(tax_args.income, tax_result.effective_tax_rate)
                   - tax_result.total_tax) <= (tax_args.income \div FracOne) + 1

\* A call with no income and tax due on wealth.
C5_Witness ==
    /\ Accepted
    /\ tax_args.income = 0
    /\ tax_result.total_tax > 0
    /\ tax_result.effective_tax_rate = 0

\* The marginal reference: bracket i taxes, at its rate, the part of the
\* income between its threshold and the next one (the top bracket has none).
RECURSIVE MarginalSlices(_, _, _)
MarginalSlices(table, i, amount) ==
    IF i = 0 THEN 0
    ELSE LET upper == IF i < Len(table) THEN Min(amount, table[i + 1][1]) ELSE amount
         IN  MarginalSlices(table, i - 1, amount)
             + MulRat(Max(0, upper - table[i][1]), table[i][2])

\* C6: the bracket tax the top-down loop gives is the marginal reference.
C6_BracketTaxIsMarginal ==
    Accepted =>
        Components.bracket_tax =
            MarginalSlices(bracket_tax_thresholds(tax_args.year),
                           Len(bracket_tax_thresholds(tax_args.year)), tax_args.income)

\* An accepted call with income in the top bracket.
C6_Witness ==
    /\ Accepted
    /\ tax_args.income > bracket_tax_thresholds(tax_args.year)[6][1]
    /\ Components.bracket_tax > 0

\* The tax of rows 1..n of a table alone.
TaxOfLowerRows(table, n, stop, amount) == ProgressiveLoop(table, n - 1, stop, amount, 0)

\* C7: bracket_tax does not fall when income rises and state_wealth_tax does
\* not fall when net wealth rises; an input equal to a row's threshold is
\* taxed as by the rows below that row alone.
C7_MonotoneAndZeroAtThreshold ==
    Accepted =>
        /\ \A i \in TaxIncomes :
               0 <= i /\ i <= tax_args.income =>
                   BracketTax(i, tax_args.year) <= Components.bracket_tax
        /\ \A w \in TaxWealths, l \in TaxLoans, m \in TaxMortgages :
               LET other == [wealth |-> w, loans |-> l, mortgage |-> m]
               IN  w >= 0 /\ l >= 0 /\ m >= 0
                   /\ NetWealthOf(other) <= tax_result.net_wealth_for_tax =>
                       StateWealthTax(NetWealthOf(other), tax_args.year)
                           <= Components.state_wealth_tax
        /\ \A n \in 2..Len(bracket_tax_thresholds(tax_args.year)) :
               tax_args.income = bracket_tax_thresholds(tax_args.year)[n][1] =>
                   Components.bracket_tax =
                       TaxOfLowerRows(bracket_tax_thresholds(tax_args.year), n - 1, 0,
                                      tax_args.income)
        /\ \A n \in 1..Len(state_wealth_tax_thresholds(tax_args.year)) :
               tax_result.net_wealth_for_tax
                   = state_wealth_tax_thresholds(tax_args.year)[n][1] =>
                   Components.state_wealth_tax =
                       TaxOfLowerRows(state_wealth_tax_thresholds(tax_args.year), n - 1, -1,
                                      tax_result.net_wealth_for_tax)

\* Income at the third threshold and net wealth at the upper wealth threshold.
C7_Witness ==
    /\ Accepted
    /\ tax_args.year = 2025
    /\ tax_args.income = NOK(697150)
    /\ tax_result.net_wealth_for_tax = NOK(20070000)
    /\ Components.bracket_tax > 0
    /\ Components.state_wealth_tax > 0

\* The call of the specification's example (home value and bank balance at
\* their defaults).
ExampleCall ==
    /\ tax_args.income = NOK(675000)
    /\ tax_args.wealth = 0
    /\ tax_args.loans = 0
    /\ tax_args.mortgage = 0
    /\ tax_args.year = 2025
    /\ tax_args.income_type = "wage"
    /\ tax_args.primary_home_value = 0
    /\ tax_args.bank_balance = 0

\* C8: the example call gives social_security 54,000 and income_tax 131,076,
\* no wealth tax and no interest deduction.
C8_ExampleIncomeTax ==
    TaxDone /\ ExampleCall =>
        /\ ~tax_result.raised
        /\ Components.social_security = NOK(54000)
        /\ Components.income_tax = NOK(131076)
        /\ Components.municipal_wealth_tax = 0
        /\ Components.state_wealth_tax = 0
        /\ Components.interest_deduction = 0

C8_Witness == TaxDone /\ ExampleCall /\ tax_result.total_tax > 0

\* C9 as stated: the example call gives a bracket_tax of about 44,947 NOK.
C9_BracketTaxAbout44947 ==
    TaxDone /\ ExampleCall =>
        Abs(Components.bracket_tax - NOK(44947)) < NOK(1)

\* C9 amended: the example call gives a bracket_tax of 16,265.05 NOK, the
\* slice 217,400..306,050 at 1.7 % plus the slice 306,050..675,000 at 4 %.
C9_BracketTaxIs16265 ==
    TaxDone /\ ExampleCall =>
        /\ Components.bracket_tax = 1626505
        /\ Components.bracket_tax =
               MulRat(NOK(306050) - NOK(217400), <<17, 1000>>)
               + MulRat(NOK(675000) - NOK(306050), <<40, 1000>>)

C9_Witness == TaxDone /\ ExampleCall /\ Components.bracket_tax > 0


\* C19: for every accepted call net_wealth_for_tax is max(0, wealth - (loans
\* + mortgage)), never negative; municipal_wealth_tax is max(0,
\* (net_wealth_for_tax - threshold) * 0.007) with the threshold 1,760,000
\* for 2025 and 1,700,000 for 2024: never negative, and 0 whenever the net
\* wealth is at or below the threshold.
C19_NetWealthAndMunicipalTax ==
    Accepted =>
        LET debt == tax_args.loans + tax_args.mortgage
            net == tax_result.net_wealth_for_tax
            threshold == IF tax_args.year = 2025 THEN NOK(1760000) ELSE NOK(1700000)
            municipal == Components.municipal_wealth_tax
        IN  /\ net = (IF tax_args.wealth - debt > 0 THEN tax_args.wealth - debt ELSE 0)
            /\ net >= 0
            /\ municipal >= 0
            /\ net <= threshold => municipal = 0
            /\ net > threshold => municipal = MulDiv(net - threshold, 7, 1000)

\* Debt above the wealth: the net wealth is held at 0 and no tax is due.
C19_Witness ==
    /\ Accepted
    /\ tax_args.wealth > 0
    /\ tax_args.wealth < tax_args.loans + tax_args.mortgage
    /\ tax_result.net_wealth_for_tax = 0
    /\ Components.municipal_wealth_tax = 0

\* The call with another home value and another bank balance.
WithHomeAndBank(a, home, bank) ==
    [a EXCEPT !.primary_home_value = home, !.bank_balance = bank]

Done == pc = "done"

\* C10: when the tax calculator accepts the arguments of every year, the
\* projection yields exactly 30 records, and the k-th has Year = k for
\* k = 1..30; while the loop runs the records so far are numbered the same.
C10_ThirtyRecordsYear1To30 ==
    /\ \A k \in 1..Len(financial_data) : financial_data[k].Year = k
    /\ Done => /\ Len(df) = 30
               /\ \A k \in 1..30 : df[k].Year = k
    /\ (pc = "project" /\ year_index = 30) => Len(financial_data) = 30

C10_Witness == Done /\ Len(df) = 30 /\ df[30].Year = 30 /\ ~tax_result.raised

\* C11: the Cumulative_Savings of year 1 is the Annual_Savings of year 1,
\* and that of each later year is the Cumulative_Savings of the year before
\* times (1 + savings return rate), plus the Annual_Savings of the year: the
\* return is applied to the carried balance only.
C11_CumulativeSavingsRecurrence ==
    \A k \in 1..Len(financial_data) :
        financial_data[k].Cumulative_Savings =
            IF k = 1 THEN financial_data[1].Annual_Savings
            ELSE MulFrac(financial_data[k - 1].Cumulative_Savings,
                         OnePlusPercent(ui.savings_return_rate))
                 + financial_data[k].Annual_Savings

\* Thirty years recorded, with a balance carried and a contribution added.
C11_Witness ==
    /\ Done
    /\ ui.savings_return_rate[1] > 0
    /\ df[1].Cumulative_Savings # 0
    /\ df[2].Annual_Savings # 0
    /\ df[30].Cumulative_Savings # df[30].Annual_Savings

\* C12 as stated: the Inflation_Factor of year 1 is 1 and the factor of each
\* later year is strictly below that of the year before, for every inflation
\* rate of the sidebar's range.
C12_FactorStrictlyDecreasing ==
    /\ Len(financial_data) >= 1 => financial_data[1].Inflation_Factor = FracOne
    /\ \A k \in 1..(Len(financial_data) - 1) :
           financial_data[k + 1].Inflation_Factor < financial_data[k].Inflation_Factor

\* C12 amended: the Inflation_Factor of year 1 is 1; at an inflation rate
\* above 0 the factor of each later year is strictly below that of the year
\* before and above 0, at the rate 0 it is 1 in every year.
C12_FactorDecreasingUnlessRateZero ==
    /\ Len(financial_data) >= 1 => financial_data[1].Inflation_Factor = FracOne
    /\ \A k \in 1..(Len(financial_data) - 1) :
           IF ui.inflation_rate[1] > 0
           THEN /\ financial_data[k + 1].Inflation_Factor
                       < financial_data[k].Inflation_Factor
                /\ financial_data[k + 1].Inflation_Factor > 0
           ELSE financial_data[k + 1].Inflation_Factor = FracOne

\* Thirty years at the sidebar's smallest positive rate, 0.1 %.
C12_Witness ==
    /\ Done
    /\ ui.inflation_rate = <<1, 10>>
    /\ df[30].Inflation_Factor < df[29].Inflation_Factor

\* C14: when the tax call of year k raises, the run ends there: the records
\* are those of the years 1..k-1, none for year k or later, and no table is
\* built from them, neither then nor later.
C14_TaxErrorAbortsProjection ==
    tax_result.raised =>
        /\ pc = "raised"
        /\ Len(financial_data) = year_index - 1
        /\ \A k \in 1..Len(financial_data) : financial_data[k].Year < years[year_index]
        /\ df = <<>>
        /\ ~ENABLED Next

\* The tax call of a year after the second raised, with records computed.
C14_Witness ==
    /\ pc = "raised"
    /\ tax_result.raised
    /\ year_index >= 3
    /\ Len(financial_data) = year_index - 1
    /\ df = <<>>

\* C18: with annual_increase = 0 and cost_of_living_increase = 0 every year
\* record carries the base salary as Gross_Salary, each expense category at
\* its base value and their sum as Monthly_Expenses, in all 30 years.
C18_ConstantSalaryAndExpenses ==
    (ui.annual_increase[1] = 0 /\ ui.cost_of_living_increase[1] = 0) =>
        /\ \A k \in 1..Len(financial_data) :
               /\ financial_data[k].Gross_Salary = ui.base_salary
               /\ financial_data[k].Joint_Dept = ui.joint_dept
               /\ financial_data[k].Groceries = ui.groceries
               /\ financial_data[k].Utilities = ui.utilities
               /\ financial_data[k].Transportation = ui.transportation
               /\ financial_data[k].Entertainment = ui.entertainment
               /\ financial_data[k].Other_Expenses = ui.other_expenses
               /\ financial_data[k].Monthly_Expenses =
                      ui.joint_dept + ui.groceries + ui.utilities + ui.transportation
                      + ui.entertainment + ui.other_expenses
        /\ Done => Len(df) = 30 /\ df = financial_data

\* Thirty years at no raise and no cost-of-living increase, with inflation
\* and a mortgage changing the other columns.
C18_Witness ==
    /\ Done
    /\ ui.annual_increase[1] = 0
    /\ ui.cost_of_living_increase[1] = 0
    /\ ui.inflation_rate[1] > 0
    /\ df[30].Gross_Salary = ui.base_salary
    /\ df[30].Monthly_Expenses = df[1].Monthly_Expenses
    /\ df[30].Real_Monthly_Expenses < df[1].Real_Monthly_Expenses

(***************************************************************************)
(* The schedule called with invalid arguments (SpecScheduleAnyArgs).       *)
(***************************************************************************)
\* C13 as stated: a call with a negative principal or a negative term is
\* rejected with an error, it returns no schedule.
C13_RejectsNegativePrincipalOrTerm ==
    (loan_amount < 0 \/ term_years < 0) => ~Returned

\* What the function does instead: a negative principal gives a schedule of
\* 12 * term records whose balance grows, a negative term an empty schedule.
C13_ReturnsScheduleForInvalidArgs ==
    Returned =>
        /\ term_years < 0 => schedule = <<>>
        /\ term_years > 0 => Len(schedule) = 12 * term_years
        /\ (loan_amount < 0 /\ term_years > 0) => FinalBalance > 0

C13_Witness ==
    /\ Returned
    /\ loan_amount < 0
    /\ term_years = 2
    /\ FinalBalance > -loan_amount

(***************************************************************************)
(* The claims about the yearly summary and the projection's columns (Spec).*)
(***************************************************************************)
Aggregated == pc \in {"project", "raised", "done"}

RECURSIVE SumOfYear(_, _, _)
SumOfYear(y, col, n) ==
    IF n = 0 THEN 0
    ELSE SumOfYear(y, col, n - 1) + schedule[12 * (y - 1) + n][col]

\* C21: the yearly summary has one row per loan year 1..term_years, in
\* ascending order; a row's payment, principal and interest are the sums
\* over the 12 records of its year and its Year_End_Balance is the
\* Remaining_Balance of record 12 * year, the last row's being the
\* schedule's final balance.
C21_YearlySummary ==
    Aggregated =>
        /\ Len(mortgage_yearly) = term_years
        /\ \A y \in 1..Len(mortgage_yearly) :
               /\ mortgage_yearly[y].Year = y
               /\ mortgage_yearly[y].Annual_Mortgage_Payment
                      = SumOfYear(y, "Monthly_Payment", 12)
               /\ mortgage_yearly[y].Annual_Principal
                      = SumOfYear(y, "Principal_Payment", 12)
               /\ mortgage_yearly[y].Annual_Interest
                      = SumOfYear(y, "Interest_Payment", 12)
               /\ mortgage_yearly[y].Year_End_Balance
                      = schedule[12 * y].Remaining_Balance
        /\ mortgage_yearly[term_years].Year_End_Balance = FinalBalance

\* The summary of a loan at interest: five rows, the balance falling.
C21_Witness ==
    /\ pc = "project"
    /\ loan_amount > 0
    /\ Len(mortgage_yearly) = 5
    /\ mortgage_yearly[1].Annual_Interest > mortgage_yearly[5].Annual_Interest
    /\ mortgage_yearly[1].Year_End_Balance > mortgage_yearly[4].Year_End_Balance
    /\ mortgage_yearly[4].Year_End_Balance > mortgage_yearly[5].Year_End_Balance

(***************************************************************************)
(* The claim about the range of the tax (SpecTax).                         *)
(***************************************************************************)
\* C28: for every accepted input with non-negative interest rates the total
\* tax is non-negative and the effective tax rate lies between 0 and 1, so
\* that a net salary income * (1 - rate) lies between 0 and the income.
C28_TaxAndRateInRange ==
    (Accepted /\ tax_args.mortgage_interest_rate >= 0
              /\ tax_args.other_loans_interest_rate >= 0) =>
        /\ tax_result.total_tax >= 0
        /\ tax_result.effective_tax_rate >= 0
        /\ tax_result.effective_tax_rate <= FracOne

\* An accepted call without income and with a mortgage: the interest
\* deduction is the only component and the total is negative.
C28_Witness ==
    /\ Accepted
    /\ tax_args.mortgage_interest_rate >= 0
    /\ tax_args.other_loans_interest_rate >= 0
    /\ tax_args.income = 0
    /\ tax_args.mortgage = NOK(2000000)
    /\ tax_result.tax_components.interest_deduction < 0
    /\ tax_result.total_tax < 0

(***************************************************************************)
(* The claim about a loan paid off early (SpecScheduleSmallLoans).         *)
(***************************************************************************)
ZeroRecord(r) ==
    /\ r.Principal_Payment = 0
    /\ r.Interest_Payment = 0
    /\ r.Monthly_Payment = 0
    /\ r.Remaining_Balance = 0

\* C29: for a valid loan (positive principal and term, rate not negative),
\* once a record of the schedule has Remaining_Balance 0 every later record
\* has Principal_Payment, Interest_Payment, Monthly_Payment and
\* Remaining_Balance all 0.
C29_ZeroAfterPaidOff ==
    (loan_amount > 0 /\ term_years > 0 /\ annual_interest_rate[1] >= 0) =>
        \A i \in 1..Len(schedule) : \A j \in 1..Len(schedule) :
            (i < j /\ schedule[i].Remaining_Balance = 0) => ZeroRecord(schedule[j])

\* A loan paid off by a record before the last, with records after it.
C29_Witness ==
    /\ Returned
    /\ loan_amount > 0
    /\ \E i \in 1..(Len(schedule) - 1) :
           /\ schedule[i].Remaining_Balance = 0
           /\ schedule[i].Principal_Payment > 0
           /\ ZeroRecord(schedule[i + 1])
           /\ ZeroRecord(schedule[Len(schedule)])

(***************************************************************************)
(* The claims about the loop's running values (Spec).                      *)
(***************************************************************************)
\* C23: the Current_Wealth of year 1 is the initial wealth; that of a later
\* year is the Current_Wealth of the year before plus that year's
\* Annual_Savings times (1 + savings return rate); and the tax call of a
\* year is made with the wealth already updated, the value the year's
\* record shows.
C23_WealthRecurrence ==
    /\ \A k \in 1..Len(financial_data) :
          financial_data[k].Current_Wealth =
              IF k = 1 THEN ui.initial_wealth
              ELSE financial_data[k - 1].Current_Wealth
                   + MulFrac(financial_data[k - 1].Annual_Savings,
                             OnePlusPercent(ui.savings_return_rate))
    /\ (pc \in {"project", "done"} /\ Len(financial_data) > 0)
          => tax_args.wealth = financial_data[Len(financial_data)].Current_Wealth
    /\ (pc = "raised" /\ Len(financial_data) > 0)
          => tax_args.wealth =
                 financial_data[Len(financial_data)].Current_Wealth
                 + MulFrac(financial_data[Len(financial_data)].Annual_Savings,
                           OnePlusPercent(ui.savings_return_rate))

\* Thirty years recorded, the wealth of the last differing from the first.
C23_Witness ==
    /\ Done
    /\ Len(financial_data) = 30
    /\ financial_data[30].Current_Wealth # ui.initial_wealth
    /\ financial_data[29].Annual_Savings # 0
    /\ tax_args.wealth = financial_data[30].Current_Wealth

\* C24: for a year within the loan term the mortgage debt passed to the tax
\* calculator and the record's Remaining_Balance are the yearly summary's
\* Year_End_Balance of that year; for a later year the mortgage passed is 0
\* and the record's Annual_Mortgage, Annual_Principal, Annual_Interest,
\* Monthly_Mortgage and Remaining_Balance are all 0.
C24_MortgageOfTheYear ==
    /\ \A k \in 1..Len(financial_data) :
          /\ financial_data[k].Year = k
          /\ k <= term_years =>
                 financial_data[k].Remaining_Balance = mortgage_yearly[k].Year_End_Balance
          /\ k > term_years =>
                 /\ financial_data[k].Annual_Mortgage = 0
                 /\ financial_data[k].Annual_Principal = 0
                 /\ financial_data[k].Annual_Interest = 0
                 /\ financial_data[k].Monthly_Mortgage = 0
                 /\ financial_data[k].Remaining_Balance = 0
    /\ (Aggregated /\ year_index > 0) =>
          tax_args.mortgage = IF year_index <= term_years
                              THEN mortgage_yearly[year_index].Year_End_Balance
                              ELSE 0

\* A loan at interest projected to the end: a balance while the loan runs,
\* payments in its last year, none in the year after.
C24_Witness ==
    /\ Done
    /\ Len(financial_data) = 30
    /\ financial_data[1].Remaining_Balance > 0
    /\ financial_data[term_years].Annual_Mortgage > 0
    /\ financial_data[term_years + 1].Annual_Mortgage = 0
    /\ tax_args.mortgage = 0

\* The record's expense columns, each with the slider it starts from.
ExpenseColumns ==
    {<<"Joint_Dept", "joint_dept">>, <<"Groceries", "groceries">>,
     <<"Utilities", "utilities">>, <<"Transportation", "transportation">>,
     <<"Entertainment", "entertainment">>, <<"Other_Expenses", "other_expenses">>}

\* C25: year 1 holds the unmodified base value of every expense category;
\* in a later year each category is the previous year's value times
\* (1 + cost-of-living rate); and Monthly_Expenses is the sum of the six
\* categories as they stand after that increase.
C25_ExpensesRecurrence ==
    \A k \in 1..Len(financial_data) :
        /\ \A c \in ExpenseColumns :
               financial_data[k][c[1]] =
                   IF k = 1 THEN ui[c[2]]
                   ELSE MulFrac(financial_data[k - 1][c[1]],
                                OnePlusPercent(ui.cost_of_living_increase))
        /\ financial_data[k].Monthly_Expenses =
               financial_data[k].Joint_Dept + financial_data[k].Groceries
               + financial_data[k].Utilities + financial_data[k].Transportation
               + financial_data[k].Entertainment + financial_data[k].Other_Expenses

\* Thirty years at a positive cost-of-living rate: every category has grown.
C25_Witness ==
    /\ Done
    /\ Len(financial_data) = 30
    /\ ui.cost_of_living_increase[1] > 0
    /\ \A c \in ExpenseColumns :
           /\ financial_data[1][c[1]] = ui[c[2]]
           /\ financial_data[30][c[1]] > financial_data[29][c[1]]
    /\ financial_data[30].Monthly_Expenses > financial_data[1].Monthly_Expenses

WithinUiRanges ==
    /\ ui.base_salary >= NOK(300000)
    /\ ui.initial_wealth >= 0
    /\ ui.other_loans >= 0
    /\ \A c \in ExpenseColumns : ui[c[2]] >= 0
    /\ loan_amount > 0

\* C27: for settings within the sidebar's ranges and a positive loan amount
\* the wealth passed to the tax calculator is non-negative in every year, so
\* no call is rejected and the projection is not cut short.
C27_WealthNeverNegative ==
    WithinUiRanges =>
        /\ pc # "raised"
        /\ (Aggregated /\ year_index > 0) =>
               /\ tax_args.wealth >= 0
               /\ ~tax_result.raised

\* Settings within the ranges whose savings are negative: the wealth of the
\* next year is below zero, the tax call raises and the loop stops short.
C27_Witness ==
    /\ WithinUiRanges
    /\ pc = "raised"
    /\ tax_args.wealth < 0
    /\ tax_result.raised
    /\ tax_result.error = "Wealth cannot be negative"
    /\ Len(financial_data) < 30
    /\ financial_data[Len(financial_data)].Annual_Savings < 0

=============================================================================
